---- MODULE Spec2Model ----
(***************************************************************************)
(* Model of the iCORA intent MCP server                                    *)
(* (src/icoraintent-mcp-fastmcp_function-source/main.py) and of the        *)
(* agent-side JSON-RPC client call_mcp_tool                                *)
(* (src/services_icoraintent-a2a-agent/agent_executor.py).                 *)
(*                                                                         *)
(* The process holds two globals, token_manager and base_url.  Tool        *)
(* functions run as coroutines: a step of the model is the code between    *)
(* two suspension points (the awaited HTTP calls), so a caller is either   *)
(* idle or suspended on one HTTP request.  The wall clock advances         *)
(* between steps.  The HTTP peers are external: the answer to a request    *)
(* is chosen from the set of answers a peer can give.                      *)
(* access_token values are non-empty strings, a different one per          *)
(* successful token response.                                              *)
(*                                                                         *)
(* The specifications share the variables:                                 *)
(*   Spec            one caller at a time, every tool and every answer;    *)
(*   SpecConcurrent  two callers interleaving on one token manager;        *)
(*   SpecPayload     the construction of the intent payload for one        *)
(*                   request, the builder called repeatedly;               *)
(*   SpecMock        the intent endpoint of the mock backend               *)
(*                   (src/icoraintent-wiremock-fastapi_function-source).   *)
(*   SpecReconfigure two callers, one of which may reconfigure;            *)
(*   SpecEndToEnd    the server answered by the mock backend's own code;   *)
(*   SpecExecutor    one run of the A2A executor's execute;                *)
(*   SpecWorkflow    one run of the agent's test_mcp_workflow against the  *)
(*                   server.                                               *)
(***************************************************************************)
EXTENDS Integers, Sequences, FiniteSets, TLC

(* ------------------------------ bounds --------------------------------- *)
MaxTicks == 2         \* clock advances in a behaviour
MaxManagers == 2      \* CloudTokenManager objects ever constructed
MaxTokenRequests == 2 \* token requests ever sent
MaxBuilds == 2        \* calls of the payload builder with one arguments dict
MaxIntents == 2       \* intent ids the mock backend ever generates
MaxEvents == 2        \* partial events of one agent run

(* --------------------------- program constants ------------------------- *)
SAFETY_MARGIN == 30         \* main.py:72   "- 30"
DEFAULT_EXPIRES_IN == 3600  \* main.py:72   .get('expires_in', 3600)
HTTP_CREATED == 201         \* main.py:183
HTTP_OK == 200              \* main.py:213, 218; agent_executor.py:48

PLACEHOLDER_URL == "https://YOUR_WIREMOCK_FUNCTION_URL"
TOKEN_PATH == "/auth/keycloak_realm/protocol/openid-connect/token"
INTENT_PATH == "/intent/"

Callers == {"c1", "c2"}
Sequential == {"c1"}   \* the callers of Spec: one tool call at a time
Urls == {"https://wm-a", "https://wm-b"}
EnvUrls == {PLACEHOLDER_URL, "https://wm-a"}
Deltas == {1, 29}

None == "None"      \* Python None in a str-typed slot
NoTime == -1        \* Python None in a datetime-typed slot

VARIABLES
    WIREMOCK_FUNCTION_URL, \* module constant read from the environment
    token_manager,         \* 0 (None) or the index in managers of the installed one
    base_url,              \* global base_url
    managers,              \* every CloudTokenManager object constructed so far
    now,                   \* wall clock (datetime.now()), whole seconds
    ticks,                 \* clock advances so far
    issued,                \* token requests sent so far
    callers,               \* per caller: the coroutine it is suspended in, if any
    last,                  \* the tool call that returned in the latest step, if any
    request,               \* parameters a create-intent call was given
    arguments,             \* the dict handed to _build_cloud_intent_payload
    payloads,              \* what each call of the builder returned, as returned
    aliased,               \* per payload: its propertyExpectations is the caller's list
    intent_ids,            \* mock backend: intent ids generated so far
    exchange,              \* mock backend: the latest request and its response
    task,                  \* A2A agent: the run of execute and its task updates
    workflow               \* A2A agent: the run of test_mcp_workflow

\* the MCP server process
serverVars == <<WIREMOCK_FUNCTION_URL, token_manager, base_url, managers, now, ticks,
                issued, callers, last>>

\* a payload construction looked at on its own
payloadVars == <<request, arguments, payloads, aliased>>

\* the mock backend process
mockVars == <<intent_ids, exchange>>

\* the A2A agent process
agentVars == <<task, workflow>>

vars == <<serverVars, payloadVars, mockVars, agentVars>>

(* ------------------------- CloudTokenManager --------------------------- *)
\* TokenUrl built from the global base_url, which configure-auth has not
\* assigned yet when the token URL is built
StaleTokenUrl(wiremockUrl) == base_url \o TOKEN_PATH

\* f"{wiremockUrl}/auth/keycloak_realm/protocol/openid-connect/token"
TokenUrl(wiremockUrl) == wiremockUrl \o TOKEN_PATH

\* NewManager starting with a token and an expiry already set
NewManagerPreset(token_url) ==
    [token_url |-> token_url, token |-> "preset", token_expiry |-> 1000,
     tok_at |-> NoTime, tok_tag |-> "none", tok_e |-> 0]

\* CloudTokenManager.__init__: no token, no expiry.  tok_at, tok_tag and
\* tok_e remember the response that delivered the stored token (the time it
\* was stored and that response's expires_in).
NewManager(token_url) ==
    [token_url |-> token_url, token |-> None, token_expiry |-> NoTime,
     tok_at |-> NoTime, tok_tag |-> "none", tok_e |-> 0]

\* CacheValid with the bound included: a token still served at its expiry
CacheValidAtExpiry(m, t) ==
    /\ m.token # None
    /\ m.token_expiry # NoTime
    /\ t <= m.token_expiry

\* CacheValid without the comparison with the clock
CacheValidForever(m, t) ==
    /\ m.token # None
    /\ m.token_expiry # NoTime

\* the guard of get_valid_token: self.token and self.token_expiry and
\* datetime.now() < self.token_expiry
CacheValid(m, t) ==
    /\ m.token # None
    /\ m.token_expiry # NoTime
    /\ t < m.token_expiry

\* ExpiryOf without the safety margin
ExpiryNoMargin(t, tag, e) ==
    t + (IF tag = "absent" THEN DEFAULT_EXPIRES_IN ELSE e)

\* expires_in = token_data.get('expires_in', 3600) - 30;
\* self.token_expiry = datetime.now() + timedelta(seconds=expires_in)
\* (tag "int": the field is a number; "absent": the body has no such field)
ExpiryOf(t, tag, e) ==
    t + (IF tag = "absent" THEN DEFAULT_EXPIRES_IN ELSE e) - SAFETY_MARGIN

(* ------------------------- the token endpoint -------------------------- *)
\* access_token of the answer to the n-th token request
TokenNames == <<"tok1", "tok2", "tok3", "tok4", "tok5", "tok6">>

ExpiresIns == {30, 31, 60}

\* What the POST to token_url can yield: a transport error (err), or a
\* response with a status and a body.  body: "not_json", "no_access_token"
\* (a JSON object without the key) or "token" (access_token present), with
\* expires_in a number ("int"), missing ("absent") or a string ("str").
Answer(err, status, body, tag, e) ==
    [err |-> err, status |-> status, body |-> body, e_tag |-> tag, e |-> e]

TokenAnswers ==
    {Answer("ConnectError", 0, "none", "none", 0),
     Answer("", 500, "not_json", "none", 0),
     Answer("", 302, "not_json", "none", 0),
     Answer("", 200, "not_json", "none", 0),
     Answer("", 200, "no_access_token", "none", 0),
     Answer("", 200, "token", "absent", 0),
     Answer("", 200, "token", "str", 0)}
    \cup {Answer("", 200, "token", "int", e) : e \in ExpiresIns}

\* httpx Response.is_success, the test of response.raise_for_status()
IsSuccess(status) == status \in 200..299

\* The statement of _refresh_access_token's try block that raises on this
\* answer, as the name of the exception (str(e) of the except clause), or
\* "" when the block completes.
RefreshError(a) ==
    IF a.err # "" THEN a.err                              \* client.post
    ELSE IF ~IsSuccess(a.status) THEN "HTTPStatusError"   \* raise_for_status
    ELSE IF a.body = "not_json" THEN "JSONDecodeError"    \* response.json()
    ELSE IF a.body = "no_access_token" THEN "KeyError"    \* token_data['access_token']
    ELSE IF a.e_tag = "str" THEN "TypeError"              \* 'str' - 30
    ELSE ""

\* The manager after the try block ran on answer a at time t: line 71 stores
\* the token before line 72 can raise, lines 72-73 store the expiry.
RefreshStore(m, a, tok, t) ==
    IF a.err # "" \/ ~IsSuccess(a.status) \/ a.body # "token" THEN m
    ELSE IF a.e_tag = "str"
         THEN [m EXCEPT !.token = tok, !.tok_at = t, !.tok_tag = "str", !.tok_e = 0]
         ELSE [m EXCEPT !.token = tok, !.tok_at = t, !.tok_tag = a.e_tag, !.tok_e = a.e,
                        !.token_expiry = ExpiryOf(t, a.e_tag, a.e)]

(* ------------------------------ callers -------------------------------- *)
\* The text a tool returns: its leading mark, which message it is, and the
\* values the message embeds.
Result(outcome, mark, text, code, body, cause, count, url) ==
    [outcome |-> outcome, mark |-> mark, text |-> text, code |-> code,
     body |-> body, cause |-> cause, count |-> count, url |-> url]

NoResult == Result("none", "none", "none", 0, None, None, 0, None)
Returned(mark, text) == Result("returned", mark, text, 0, None, None, 0, None)
Raised(cause) == Result("raised", "none", "none", 0, None, cause, 0, None)

\* no answer received (yet)
NoAnswer == [err |-> "", status |-> 0, body |-> "none", e_tag |-> "none", e |-> 0]
NoReply == [err |-> "", status |-> 0, json |-> FALSE, body |-> ""]
NoProbe == [err |-> "", status |-> 0, json |-> FALSE, count |-> 0]

\* A tool call: where it is suspended (pc), the requests it has sent, the
\* answers it has received, what its get_valid_token call saw and gave (gvt_url:
\* the token URL of the manager it ran on), the statements it has passed in
\* order (trace), and the tool's result.
IdleCaller ==
    [pc |-> "idle", op |-> "none", self |-> 0, cfg |-> 0,
     tokenReqs |-> 0, postReqs |-> 0, req_no |-> 0,
     ans |-> NoAnswer, reply |-> NoReply, health |-> NoProbe, admin |-> NoProbe,
     gvt_out |-> "none", gvt_at |-> NoTime, gvt_req |-> FALSE,
     gvt_held |-> None, gvt_held_at |-> NoTime, gvt_held_tag |-> "none",
     gvt_held_e |-> 0,
     gvt_token |-> None, gvt_cause |-> None, gvt_ret_at |-> NoTime,
     gvt_exp |-> NoTime,
     gvt_url |-> None,
     req_url |-> None, post_url |-> None, post_bearer |-> None,
     probe_url |-> None, trace |-> <<>>, result |-> NoResult]

\* a tool function is entered by caller c
Enter(op) == [IdleCaller EXCEPT !.op = op, !.cfg = token_manager]

\* the test `if not token_manager` of a tool (lines 121 and 145)
ConfigCheck(cr) == [cr EXCEPT !.trace = Append(@, "check")]

(* --------------------------- get_valid_token --------------------------- *)
\* lines 44-45: return self.token
GvtCached(cr, i) ==
    [cr EXCEPT !.self = i, !.gvt_at = now, !.trace = Append(@, "token"),
               !.gvt_url = managers[i].token_url,
               !.gvt_held = managers[i].token, !.gvt_held_at = managers[i].tok_at,
               !.gvt_held_tag = managers[i].tok_tag, !.gvt_held_e = managers[i].tok_e,
               !.gvt_out = "returned", !.gvt_token = managers[i].token,
               !.gvt_ret_at = now, !.gvt_exp = managers[i].token_expiry]

\* line 46 up to the suspension on client.post (line 64)
GvtRequest(cr, i) ==
    [cr EXCEPT !.self = i, !.gvt_at = now, !.trace = Append(@, "token"),
               !.gvt_url = managers[i].token_url,
               !.gvt_held = managers[i].token, !.gvt_held_at = managers[i].tok_at,
               !.gvt_held_tag = managers[i].tok_tag, !.gvt_held_e = managers[i].tok_e,
               !.gvt_req = TRUE, !.pc = "await_token",
               !.tokenReqs = @ + 1, !.req_no = issued + 1,
               !.req_url = managers[i].token_url]

\* get_valid_token entered on manager i at time now
get_valid_token(cr, i) ==
    IF CacheValid(managers[i], now) THEN GvtCached(cr, i) ELSE GvtRequest(cr, i)

\* RefreshRaise with the exception swallowed: get_valid_token goes on to
\* line 47 and returns whatever self.token holds
RefreshSwallow(cr, cause) ==
    [cr EXCEPT !.gvt_out = "returned", !.gvt_token = managers[cr.self].token,
               !.gvt_ret_at = now, !.gvt_exp = managers[cr.self].token_expiry]

\* RefreshRaise replaced by a second attempt: the request is sent again
RefreshRetry(cr, cause) == [cr EXCEPT !.tokenReqs = @ + 1]

\* lines 75-77: the except clause logs and raises
\* Exception(f"Cloud authentication failed: {str(e)}")
RefreshRaise(cr, cause) ==
    [cr EXCEPT !.gvt_out = "raised", !.gvt_cause = cause]

\* GvtRefreshed returning the token read before the refresh
GvtRefreshedHeld(cr, m, a) ==
    [cr EXCEPT !.gvt_out = "returned", !.gvt_token = cr.gvt_held, !.gvt_ret_at = now,
               !.gvt_exp = m.token_expiry]

\* line 47 after a refresh that completed: return self.token (m: the
\* manager as the refresh left it)
GvtRefreshed(cr, m, a) ==
    [cr EXCEPT !.gvt_out = "returned", !.gvt_token = m.token, !.gvt_ret_at = now,
               !.gvt_exp = m.token_expiry]

\* the rest of get_valid_token once the token request is answered by a
GvtResume(cr, m, a) ==
    IF RefreshError(a) # "" THEN RefreshRaise([cr EXCEPT !.ans = a], RefreshError(a))
    ELSE GvtRefreshed([cr EXCEPT !.ans = a], m, a)

(* ---------------------------- tool functions --------------------------- *)
NotConfigured == Returned("err", "not_configured")

Finish(cr, result) == [cr EXCEPT !.pc = "idle", !.result = result]

\* TestAuthExcept without the except clause: the exception leaves the tool
TestAuthPropagate(cr, cause) == Finish(cr, Raised(cause))

\* icoraintent_test_cloud_auth, lines 127-129: the except clause returns
\* f"Cloud authentication test failed: {str(e)}"
TestAuthExcept(cr, cause) ==
    Finish(cr, [Returned("err", "auth_test_failed") EXCEPT !.cause = cause])

\* icoraintent_test_cloud_auth after get_valid_token (lines 124-129)
TestAuthResume(cr) ==
    CASE cr.gvt_out = "returned" -> Finish(cr, Returned("ok", "auth_ok"))
      [] cr.gvt_out = "raised" -> TestAuthExcept(cr, cr.gvt_cause)
      [] OTHER -> cr

\* icoraintent_create_cloud_intent, lines 194-196: the except clause returns
\* f"Error creating cloud intent: {str(e)}"
CreateIntentExcept(cr, cause) ==
    Finish(cr, [Returned("err", "intent_error") EXCEPT !.cause = cause])

\* lines 160-181: the payload is built, then the POST to
\* f"{base_url}/intent/" is sent with the bearer token
PostIntent(cr) ==
    [cr EXCEPT !.pc = "await_post", !.postReqs = @ + 1,
               !.trace = @ \o <<"payload", "post">>,
               !.post_url = base_url \o INTENT_PATH, !.post_bearer = cr.gvt_token]

\* CreateIntentResume going on to the POST after get_valid_token raised
CreateIntentResumeAnyway(cr) ==
    CASE cr.gvt_out = "returned" -> PostIntent(cr)
      [] cr.gvt_out = "raised" -> PostIntent(cr)
      [] OTHER -> cr

\* icoraintent_create_cloud_intent after get_valid_token (lines 159-181)
CreateIntentResume(cr) ==
    CASE cr.gvt_out = "returned" -> PostIntent(cr)
      [] cr.gvt_out = "raised" -> CreateIntentExcept(cr, cr.gvt_cause)
      [] OTHER -> cr

\* What the POST to the intent endpoint can yield: a transport error, or a
\* status with a body text that is JSON or not.
IntentAnswer(err, status, json, body) ==
    [err |-> err, status |-> status, json |-> json, body |-> body]

IntentAnswers ==
    {IntentAnswer("ConnectError", 0, FALSE, ""),
     IntentAnswer("", 201, TRUE, "{id}"),
     IntentAnswer("", 201, FALSE, "created"),
     IntentAnswer("", 200, TRUE, "{id}"),
     IntentAnswer("", 401, TRUE, "{unauthorized}"),
     IntentAnswer("", 500, FALSE, "boom")}

\* lines 183-192: the status test; result = response.json() raises on a
\* body that is not JSON
IntentOutcome(cr, a) ==
    IF a.err # "" THEN CreateIntentExcept(cr, a.err)
    ELSE IF a.status = HTTP_CREATED
         THEN IF a.json THEN Finish(cr, Returned("ok", "intent_created"))
              ELSE CreateIntentExcept(cr, "JSONDecodeError")
         ELSE Finish(cr, [Returned("err", "intent_failed") EXCEPT
                             !.code = a.status, !.body = a.body])

\* base_url or WIREMOCK_FUNCTION_URL (lines 202-206, 232)
TestUrl == IF base_url # "" THEN base_url ELSE WIREMOCK_FUNCTION_URL

\* What a GET probe can yield; count: len of the body's 'mappings'
ProbeAnswer(err, status, json, count) ==
    [err |-> err, status |-> status, json |-> json, count |-> count]

ProbeAnswers ==
    {ProbeAnswer("ConnectError", 0, FALSE, 0),
     ProbeAnswer("", 200, TRUE, 0),
     ProbeAnswer("", 200, TRUE, 2),
     ProbeAnswer("", 200, FALSE, 0),
     ProbeAnswer("", 503, FALSE, 0),
     ProbeAnswer("", 404, TRUE, 0)}

\* check_cloud_connectivity, lines 226-227
ConnectivityExcept(cr, cause) ==
    Finish(cr, [Returned("err", "cannot_reach") EXCEPT !.cause = cause])

\* lines 211-224 once /health is answered
HealthOutcome(cr, a) ==
    IF a.err # "" THEN ConnectivityExcept(cr, a.err)
    ELSE IF a.status = HTTP_OK
         THEN [cr EXCEPT !.pc = "await_admin"]
         ELSE Finish(cr, [Returned("err", "not_responding") EXCEPT !.url = cr.probe_url])

\* lines 216-222 once /__admin/mappings is answered
AdminOutcome(cr, a) ==
    IF a.err # "" THEN ConnectivityExcept(cr, a.err)
    ELSE IF a.status = HTTP_OK
         THEN IF a.json
              THEN Finish(cr, [Returned("ok", "fully_accessible") EXCEPT
                                  !.count = a.count, !.url = cr.probe_url])
              ELSE ConnectivityExcept(cr, "JSONDecodeError")
         ELSE Finish(cr, [Returned("warn", "admin_not_accessible") EXCEPT
                             !.url = cr.probe_url])

(* ----------------------- the JSON-RPC boundary ------------------------- *)
\* icoraintent_mcp_function, tools/call (lines 431-478): the text a tool
\* returned is wrapped as result.content[0].text with HTTP 200; an exception
\* becomes error -32603 with HTTP 500
tools_call(res) ==
    IF res.outcome = "returned"
    THEN [http |-> HTTP_OK, member |-> "result", text |-> res.text, mark |-> res.mark]
    ELSE IF res.outcome = "rpc_error"
    THEN [http |-> 404, member |-> "error", text |-> res.text, mark |-> "none"]
    ELSE [http |-> 500, member |-> "error", text |-> "Internal error", mark |-> "none"]

\* call_mcp_tool (agent_executor.py lines 48-62): HTTP 200 with a result
\* member gives status success and the text; an error member or another
\* HTTP status gives status error
call_mcp_tool(resp) ==
    IF resp.http = HTTP_OK /\ resp.member = "result"
    THEN [status |-> "success", text |-> resp.text, mark |-> resp.mark]
    ELSE [status |-> "error", text |-> resp.text, mark |-> resp.mark]

(* ---------------------------- tool dispatch ------------------------------ *)
\* tools/list, lines 377-422: the names of the tools array, in order
TOOLS_LIST ==
    <<"icoraintent_configure_cloud_auth", "icoraintent_test_cloud_auth",
      "icoraintent_create_cloud_intent", "check_cloud_connectivity",
      "cloud_health_check", "list_cloud_tools">>

\* list_cloud_tools, lines 237-242: the name each line starts with, in order
LISTED_TOOLS ==
    <<"icoraintent_configure_cloud_auth", "icoraintent_test_cloud_auth",
      "icoraintent_create_cloud_intent", "check_cloud_connectivity",
      "cloud_health_check", "list_cloud_tools">>

\* names a tools/call request may carry
ToolNames ==
    {TOOLS_LIST[i] : i \in DOMAIN TOOLS_LIST}
    \cup {"icoraintent_delete_cloud_intent", "health_check"}

\* the if/elif chain with the health check under a name of its own
DispatchRenamed(tool_name) ==
    CASE tool_name = "icoraintent_configure_cloud_auth" -> "configure_auth"
      [] tool_name = "icoraintent_test_cloud_auth" -> "test_auth"
      [] tool_name = "icoraintent_create_cloud_intent" -> "create_intent"
      [] tool_name = "check_cloud_connectivity" -> "check_connectivity"
      [] tool_name = "health_check" -> "health_check"
      [] tool_name = "list_cloud_tools" -> "list_tools"
      [] OTHER -> "tool_not_found"

\* tools/call, lines 436-456: the operation a tool name is mapped to
Dispatch(tool_name) ==
    CASE tool_name = "icoraintent_configure_cloud_auth" -> "configure_auth"
      [] tool_name = "icoraintent_test_cloud_auth" -> "test_auth"
      [] tool_name = "icoraintent_create_cloud_intent" -> "create_intent"
      [] tool_name = "check_cloud_connectivity" -> "check_connectivity"
      [] tool_name = "cloud_health_check" -> "health_check"
      [] tool_name = "list_cloud_tools" -> "list_tools"
      [] OTHER -> "tool_not_found"

\* lines 448-456: the JSON-RPC error of the else branch, sent with HTTP 404
ToolNotFound(tool_name) ==
    Result("rpc_error", "none", "Tool not found", -32601, tool_name, None, 0, None)

(* --------------------------- intent payload ---------------------------- *)
\* A parameter of a tool call is None or a value; lists are sequences and
\* dicts are functions on their keys, so the empty list and the empty dict
\* both have an empty domain.
PyNone == [given |-> FALSE, value |-> <<>>]
Given(v) == [given |-> TRUE, value |-> v]

\* Python truth of "if x:" and "if arguments.get(key):" for None, lists and dicts
Truthy(x) == x.given /\ DOMAIN x.value # {}

IntentTypes == {"EventLiveBroadcast", "VideoConference", "DataTransfer", None}

\* one {target, params} pair
Expectation(target, params) == [target |-> target, params |-> params]

WirelessAccess ==
    Expectation("_:service", [targetDescription |-> "cat:EventWirelessAccess"])
Coverage == Expectation("_:coverage", [targetDescription |-> "cat:Coverage"])
Latency == Expectation("_:latency", [maxLatency |-> "10ms"])
Bandwidth == Expectation("_:bandwidth", [minBandwidth |-> "1Gbps"])

Point(lon, lat) == [longitude |-> lon, latitude |-> lat]
Stadium == Point(10, 20)
Harbour == Point(-5, 7)

DeliveryInputs ==
    {PyNone, Given(<<>>), Given(<<Coverage>>), Given(<<Coverage, WirelessAccess>>),
     Given(<<WirelessAccess, Coverage>>)}
ServiceAreaInputs ==
    {PyNone, Given(<<>>), Given(<<Stadium>>), Given(<<Stadium, Harbour>>),
     Given(<<Harbour, Stadium>>)}
ValidForInputs ==
    {PyNone, Given(<<>>),
     Given([startDateTime |-> "2026-01-01T00:00", endDateTime |-> "2026-01-02T00:00"])}
PropertyInputs ==
    {PyNone, Given(<<>>), Given(<<Latency>>), Given(<<Latency, Bandwidth>>)}

\* the parameters of icoraintent_create_cloud_intent, intentType after its
\* default has been applied
Requests ==
    [name : {"final"}, description : {"cup final broadcast"},
     intentType : IntentTypes, deliveryExpectations : DeliveryInputs,
     serviceArea : ServiceAreaInputs, validFor : ValidForInputs,
     propertyExpectations : PropertyInputs]

\* icoraintent_create_cloud_intent without the default of lines 149-157
SuppliedDelivery(deliveryExpectations) == deliveryExpectations

\* icoraintent_create_cloud_intent, lines 149-157: "if not deliveryExpectations"
DefaultDelivery(deliveryExpectations) ==
    IF ~Truthy(deliveryExpectations) THEN Given(<<WirelessAccess>>)
    ELSE deliveryExpectations

\* icoraintent_create_cloud_intent, lines 160-168: the dict handed to the
\* builder; the lists in it are the caller's own objects
CreateIntentArguments(r) ==
    [r EXCEPT !.deliveryExpectations = DefaultDelivery(r.deliveryExpectations)]

\* lines 264-277
EXPRESSION ==
    ("context" :>
        [icm |-> "http://www.models.tmforum.org/tio/v1.0/IntentCommonModel#",
         cat |-> "http://www.operator.com/Catalog#",
         idan |-> "http://www.idan-tmforum-catalyst.org/IntentDrivenAutonomousNetworks#",
         geo |-> "https://tmforum.org/2020/07/geographicPoint#"])
    @@ ("idan" :>
        ("EventLiveBroadcast" :>
            (("@type" :> "icm:Intent")
             @@ ("icm:intentOwner" :> "idan:ABCEvents")
             @@ ("icm:hasExpectation" :> <<>>))))

\* lines 282-288
GeoPoints(serviceArea) ==
    [i \in DOMAIN serviceArea |->
        ("geo:longitude" :> serviceArea[i].longitude)
        @@ ("geo:latitude" :> serviceArea[i].latitude)]

\* lines 292-297
AreaOfService(serviceArea) ==
    Expectation("_:service", ("elb:areaOfService" :> GeoPoints(serviceArea)))

\* an expression for every intent type
ExpressionAlways(args) == TRUE

\* line 263
IsEventLiveBroadcast(args) == args.intentType = "EventLiveBroadcast"

\* line 281, reached only inside the branch of line 263
FoldsServiceArea(args) == IsEventLiveBroadcast(args) /\ Truthy(args.serviceArea)

\* line 260 made the payload's propertyExpectations the caller's list object
SharesPropertyList(args) == Truthy(args.propertyExpectations)

\* PayloadBase copying every value that is not None, empty or not
PayloadBaseKeepsEmpty(args) ==
    LET fixed == [name |-> args.name, description |-> args.description,
                  type |-> "Intent",
                  deliveryExpectations |-> args.deliveryExpectations.value]
        dated == IF args.validFor.given
                 THEN ("validFor" :> args.validFor.value) @@ fixed ELSE fixed
    IN IF args.propertyExpectations.given
       THEN ("propertyExpectations" :> args.propertyExpectations.value) @@ dated
       ELSE dated

\* lines 249-260
PayloadBase(args) ==
    LET fixed == [name |-> args.name, description |-> args.description,
                  type |-> "Intent",
                  deliveryExpectations |-> args.deliveryExpectations.value]
        dated == IF Truthy(args.validFor)
                 THEN ("validFor" :> args.validFor.value) @@ fixed ELSE fixed
    IN IF Truthy(args.propertyExpectations)
       THEN ("propertyExpectations" :> args.propertyExpectations.value) @@ dated
       ELSE dated

\* _build_cloud_intent_payload: the dict it returns, as it is on return
_build_cloud_intent_payload(args) ==
    LET base == PayloadBase(args)
        expressed == IF IsEventLiveBroadcast(args)
                     THEN ("expression" :> EXPRESSION) @@ base ELSE base
        before == IF "propertyExpectations" \in DOMAIN expressed
                  THEN expressed["propertyExpectations"] ELSE <<>>
    IN IF FoldsServiceArea(args)
       THEN ("propertyExpectations" :>
                Append(before, AreaOfService(args.serviceArea.value))) @@ expressed
       ELSE expressed

\* the arguments dict after the call: the append of line 292 goes to the
\* caller's propertyExpectations list when line 260 put that list in the payload
ArgumentsAfterBuild(args) ==
    IF FoldsServiceArea(args) /\ SharesPropertyList(args)
    THEN [args EXCEPT !.propertyExpectations =
            Given(Append(@.value, AreaOfService(args.serviceArea.value)))]
    ELSE args

(* ------------------------------- actions ------------------------------- *)
\* A manager object that neither the global token_manager nor a coroutine
\* suspended in its _refresh_access_token refers to is unreachable: Python
\* frees it, and the model forgets its fields.
Freed == NewManager(None)

Collect(ms, installed, cs) ==
    [i \in DOMAIN ms |->
        IF i = installed \/ \E c \in Callers : cs[c].pc = "await_token" /\ cs[c].self = i
        THEN ms[i] ELSE Freed]

\* caller c ran up to its next suspension point or to its return, reaching cr
Step(c, cr) ==
    /\ callers' = [callers EXCEPT ![c] = IF cr.pc = "idle" THEN IdleCaller ELSE cr]
    /\ last' = IF cr.pc = "idle" THEN cr ELSE IdleCaller

\* _initialize_from_env at import
InitServer ==
    /\ WIREMOCK_FUNCTION_URL \in EnvUrls
    /\ IF WIREMOCK_FUNCTION_URL # "" /\ WIREMOCK_FUNCTION_URL # PLACEHOLDER_URL
       THEN /\ base_url = WIREMOCK_FUNCTION_URL
            /\ token_manager = 1
            /\ managers = <<NewManager(TokenUrl(WIREMOCK_FUNCTION_URL))>>
       ELSE /\ base_url = ""
            /\ token_manager = 0
            /\ managers = <<>>
    /\ now = 100
    /\ ticks = 0
    /\ issued = 0
    /\ callers = [c \in Callers |-> IdleCaller]
    /\ last = IdleCaller

\* no payload has been built
NoPayload ==
    /\ request = PyNone
    /\ arguments = PyNone
    /\ payloads = <<>>
    /\ aliased = <<>>

\* the mock backend has generated no id and answered no request
NoExchange ==
    /\ intent_ids = 0
    /\ exchange = PyNone

\* no run of execute and no run of test_mcp_workflow has begun
NoAgent ==
    /\ task = [pc |-> "none", current_task |-> FALSE, session |-> "none",
               events |-> 0, seen_final |-> FALSE, raised |-> FALSE,
               updates |-> <<>>, artifact |-> <<>>]
    /\ workflow = [pc |-> "idle", invoked |-> <<>>, health |-> 0,
                   status |-> "none", step_failed |-> None,
                   steps_completed |-> <<>>]

Init == InitServer /\ NoPayload /\ NoExchange /\ NoAgent

Tick(d) ==
    /\ ticks < MaxTicks
    /\ now' = now + d
    /\ ticks' = ticks + 1
    /\ last' = IdleCaller
    /\ UNCHANGED <<WIREMOCK_FUNCTION_URL, token_manager, base_url, managers, issued,
                   callers>>
    /\ UNCHANGED <<payloadVars, mockVars, agentVars>>

icoraintent_configure_cloud_auth(c, wiremockUrl) ==
    /\ callers[c].pc = "idle"
    /\ Len(managers) < MaxManagers
    /\ token_manager' = Len(managers) + 1
    /\ base_url' = wiremockUrl
    /\ Step(c,
          Finish(Enter("configure_auth"),
                 [Returned("ok", "configured") EXCEPT !.url = wiremockUrl]))
    /\ managers' = Collect(Append(managers, NewManager(TokenUrl(wiremockUrl))),
                           token_manager', callers')
    /\ UNCHANGED <<WIREMOCK_FUNCTION_URL, now, ticks, issued>>
    /\ UNCHANGED <<payloadVars, mockVars, agentVars>>

\* the code of the tool after its get_valid_token call
Resume(cr) ==
    IF cr.op = "test_auth" THEN TestAuthResume(cr) ELSE CreateIntentResume(cr)

\* EnterWithToken taking a manager that holds no token for no manager
EnterWithTokenHeld(c, op) ==
    /\ callers[c].pc = "idle"
    /\ IF token_manager = 0 \/ managers[token_manager].token = None
       THEN /\ Step(c, Finish(ConfigCheck(Enter(op)), NotConfigured))
            /\ UNCHANGED issued
       ELSE LET cr == get_valid_token(ConfigCheck(Enter(op)), token_manager) IN
            /\ cr.gvt_req => issued < MaxTokenRequests
            /\ issued' = IF cr.gvt_req THEN issued + 1 ELSE issued
            /\ Step(c, Resume(cr))
    /\ UNCHANGED <<WIREMOCK_FUNCTION_URL, token_manager, base_url, managers, now,
                   ticks>>
    /\ UNCHANGED <<payloadVars, mockVars, agentVars>>

\* a tool that starts with the configuration check and get_valid_token
\* (lines 121-124 and 145-159)
EnterWithToken(c, op) ==
    /\ callers[c].pc = "idle"
    /\ IF token_manager = 0
       THEN /\ Step(c, Finish(ConfigCheck(Enter(op)), NotConfigured))
            /\ UNCHANGED issued
       ELSE LET cr == get_valid_token(ConfigCheck(Enter(op)), token_manager) IN
            /\ cr.gvt_req => issued < MaxTokenRequests
            /\ issued' = IF cr.gvt_req THEN issued + 1 ELSE issued
            /\ Step(c, Resume(cr))
    /\ UNCHANGED <<WIREMOCK_FUNCTION_URL, token_manager, base_url, managers, now,
                   ticks>>
    /\ UNCHANGED <<payloadVars, mockVars, agentVars>>

icoraintent_test_cloud_auth(c) == EnterWithToken(c, "test_auth")

icoraintent_create_cloud_intent(c) ==
    EnterWithToken(c, "create_intent")

\* the token endpoint answers the request caller c is suspended on
TokenResponse(c, a) ==
    LET cr == callers[c]
        m == RefreshStore(managers[cr.self], a, TokenNames[cr.req_no], now)
        got == GvtResume(cr, m, a)
    IN /\ cr.pc = "await_token"
       /\ Step(c, Resume(got))
       /\ managers' = Collect([managers EXCEPT ![cr.self] = m], token_manager,
                              callers')
       /\ UNCHANGED <<WIREMOCK_FUNCTION_URL, token_manager, base_url, now, ticks,
                      issued>>
       /\ UNCHANGED <<payloadVars, mockVars, agentVars>>

\* the intent endpoint answers the POST caller c is suspended on
IntentResponse(c, a) ==
    /\ callers[c].pc = "await_post"
    /\ Step(c, IntentOutcome([callers[c] EXCEPT !.reply = a], a))
    /\ UNCHANGED <<WIREMOCK_FUNCTION_URL, token_manager, base_url, managers, now,
                   ticks, issued>>
    /\ UNCHANGED <<payloadVars, mockVars, agentVars>>

check_cloud_connectivity(c) ==
    /\ callers[c].pc = "idle"
    /\ Step(c,
          [Enter("check_connectivity") EXCEPT !.pc = "await_health",
                                              !.probe_url = TestUrl])
    /\ UNCHANGED <<WIREMOCK_FUNCTION_URL, token_manager, base_url, managers, now,
                   ticks, issued>>
    /\ UNCHANGED <<payloadVars, mockVars, agentVars>>

HealthResponse(c, a) ==
    /\ callers[c].pc = "await_health"
    /\ Step(c, HealthOutcome([callers[c] EXCEPT !.health = a], a))
    /\ UNCHANGED <<WIREMOCK_FUNCTION_URL, token_manager, base_url, managers, now,
                   ticks, issued>>
    /\ UNCHANGED <<payloadVars, mockVars, agentVars>>

AdminResponse(c, a) ==
    /\ callers[c].pc = "await_admin"
    /\ Step(c, AdminOutcome([callers[c] EXCEPT !.admin = a], a))
    /\ UNCHANGED <<WIREMOCK_FUNCTION_URL, token_manager, base_url, managers, now,
                   ticks, issued>>
    /\ UNCHANGED <<payloadVars, mockVars, agentVars>>

cloud_health_check(c) ==
    /\ callers[c].pc = "idle"
    /\ Step(c,
          Finish(Enter("health_check"),
                 [Returned("ok", "healthy") EXCEPT !.url = TestUrl]))
    /\ UNCHANGED <<WIREMOCK_FUNCTION_URL, token_manager, base_url, managers, now,
                   ticks, issued>>
    /\ UNCHANGED <<payloadVars, mockVars, agentVars>>

\* the six lines of the static list
list_cloud_tools(c) ==
    /\ callers[c].pc = "idle"
    /\ Step(c,
          Finish(Enter("list_tools"), [Returned("ok", "tools") EXCEPT !.count = 6]))
    /\ UNCHANGED <<WIREMOCK_FUNCTION_URL, token_manager, base_url, managers, now,
                   ticks, issued>>
    /\ UNCHANGED <<payloadVars, mockVars, agentVars>>

\* tools/call with a name the if/elif chain does not know
tool_not_found(c, tool_name) ==
    /\ callers[c].pc = "idle"
    /\ Dispatch(tool_name) = "tool_not_found"
    /\ Step(c, Finish(Enter("tool_not_found"), ToolNotFound(tool_name)))
    /\ UNCHANGED <<WIREMOCK_FUNCTION_URL, token_manager, base_url, managers, now,
                   ticks, issued>>
    /\ UNCHANGED <<payloadVars, mockVars, agentVars>>

\* the steps callers of the set C and the clock can take
NextOf(C) ==
    \/ \E d \in Deltas : Tick(d)
    \/ \E c \in C, u \in Urls : icoraintent_configure_cloud_auth(c, u)
    \/ \E c \in C : icoraintent_test_cloud_auth(c)
    \/ \E c \in C : icoraintent_create_cloud_intent(c)
    \/ \E c \in C, a \in TokenAnswers : TokenResponse(c, a)
    \/ \E c \in C, a \in IntentAnswers : IntentResponse(c, a)
    \/ \E c \in C : check_cloud_connectivity(c)
    \/ \E c \in C, a \in ProbeAnswers : HealthResponse(c, a)
    \/ \E c \in C, a \in ProbeAnswers : AdminResponse(c, a)
    \/ \E c \in C : cloud_health_check(c)
    \/ \E c \in C : list_cloud_tools(c)
    \/ \E c \in C, tool_name \in ToolNames : tool_not_found(c, tool_name)

Next == NextOf(Sequential)

Spec == Init /\ [][Next]_vars

(* --------------------------- concurrent callers ------------------------- *)
\* Two tool calls in progress at a time on the manager installed at start-up:
\* the event loop runs one coroutine until its next await, so the steps
\* interleave at the awaited HTTP calls.  The calls begin either before the
\* first refresh or after one, the token of which may have expired.
\* the answers of the peers looked at under concurrency: an unreachable
\* endpoint, tokens with a short and a long life, a token with a string
\* expires_in; an intent created and an intent refused
ConcurrentTokenAnswers ==
    {a \in TokenAnswers :
        \/ a.err = "ConnectError"
        \/ a.e_tag = "str"
        \/ a.e_tag = "int" /\ a.e \in {30, 60}}

ConcurrentIntentAnswers ==
    {a \in IntentAnswers : a.status \in {201, 500} /\ a.body \in {"{id}", "boom"}}

\* the clock advance looked at under concurrency
ConcurrentDeltas == {29}

\* the token of an earlier refresh that the manager may hold when the
\* concurrent calls begin
EARLIER_TOKEN == "tok0"

\* the manager installed at start-up, without token or as a refresh that was
\* answered with a numeric expires_in at time t left it
ManagersAtStart(url, t) ==
    {NewManager(TokenUrl(url))}
    \cup {RefreshStore(NewManager(TokenUrl(url)), a, EARLIER_TOKEN, t) :
             a \in {b \in ConcurrentTokenAnswers : b.e_tag = "int"}}

InitConcurrent ==
    /\ WIREMOCK_FUNCTION_URL \in EnvUrls \ {PLACEHOLDER_URL}
    /\ base_url = WIREMOCK_FUNCTION_URL
    /\ token_manager = 1
    /\ now = 100
    /\ managers \in {<<m>> : m \in ManagersAtStart(WIREMOCK_FUNCTION_URL, now)}
    /\ ticks = 0
    /\ issued = 0
    /\ callers = [c \in Callers |-> IdleCaller]
    /\ last = IdleCaller
    /\ NoPayload
    /\ NoExchange
    /\ NoAgent

NextConcurrent ==
    \/ \E d \in ConcurrentDeltas : Tick(d)
    \/ \E c \in Callers : icoraintent_test_cloud_auth(c)
    \/ \E c \in Callers : icoraintent_create_cloud_intent(c)
    \/ \E c \in Callers, a \in ConcurrentTokenAnswers : TokenResponse(c, a)
    \/ \E c \in Callers, a \in ConcurrentIntentAnswers : IntentResponse(c, a)

SpecConcurrent == InitConcurrent /\ [][NextConcurrent]_vars

(* ----------------------------- mock backend ----------------------------- *)
\* Authorization header values: None when the header is missing, else the
\* string cut after its first seven characters where it has that many
AuthHeaders ==
    {PyNone, Given(<<>>), Given(<<"Bearer">>), Given(<<"Bearer ", "">>),
     Given(<<"Bearer ", "cloud_mock_token_1">>), Given(<<"bearer ", "cloud_mock_token_1">>),
     Given(<<"Basic d", "XNlcg==">>)}

\* "not authorization or not authorization.startswith('Bearer ')", lines 87, 432
Unauthorized(authorization) ==
    ~Truthy(authorization) \/ authorization.value[1] # "Bearer "

\* request bodies: no bytes, bytes that are not UTF-8, text that is not JSON,
\* a JSON list, a JSON object without name, and two objects IntentRequest accepts
Bodies ==
    {"empty", "binary", "text", "json_list", "json_without_name", "json_intent",
     "json_broadcast_intent"}

\* request.data.decode(), line 362
Decodes(body) == body # "binary"

\* request.get_json() and IntentRequest(**json_data), lines 439-440
ValidIntent(body) == body \in {"json_intent", "json_broadcast_intent"}

Hosts == {"wm-a", "localhost:8080"}

\* a response of the mock: status, the error member of the body, the id of
\* the body and the Location header as the text before the id and the id
Reply(status, error, id, prefix, location_id) ==
    [status |-> status, error |-> error, id |-> id,
     location |-> [prefix |-> prefix, id |-> location_id]]

\* generate_intent_response, line 109: the n-th uuid drawn
IntentId(n) == n

\* icoraintent_wiremock_function for POST /intent/: the environ dict of lines
\* 354-364 decodes the body and the except clause of lines 463-469 answers 500;
\* then lines 429-449
wiremock_intent(host, authorization, body, n) ==
    IF ~Decodes(body) THEN Reply(500, "internal_server_error", 0, "", 0)
    ELSE IF Unauthorized(authorization) THEN Reply(401, "unauthorized", 0, "", 0)
    ELSE IF ValidIntent(body)
    THEN Reply(HTTP_CREATED, "", IntentId(n), "https://" \o host \o "/intent/",
               IntentId(n))
    ELSE Reply(400, "validation_error", 0, "", 0)

\* the FastAPI route create_intent with its dependency validate_bearer_token
\* (lines 85-91, 245-270), for a body the framework parsed as an IntentRequest
create_intent(authorization, n) ==
    IF Unauthorized(authorization) THEN Reply(401, "unauthorized", 0, "", 0)
    ELSE Reply(HTTP_CREATED, "", IntentId(n), "https://cloud-function-url/intent/",
               IntentId(n))

\* the mock answers a POST /intent/ that reached entry point entry
MockAnswers(entry, host, authorization, body, reply) ==
    /\ exchange' = Given([entry |-> entry, host |-> host,
                          authorization |-> authorization, body |-> body,
                          reply |-> reply, ids_before |-> intent_ids])
    /\ intent_ids' = IF reply.id # 0 THEN intent_ids + 1 ELSE intent_ids
    /\ intent_ids' <= MaxIntents
    /\ UNCHANGED <<serverVars, payloadVars, agentVars>>

\* POST /intent/ to the Cloud Function entry point
PostToFunction(host, authorization, body) ==
    /\ body \in Bodies
    /\ MockAnswers("function", host, authorization, body,
                   wiremock_intent(host, authorization, body, intent_ids + 1))

\* POST /intent/ to the FastAPI application
PostToRoute(authorization, body) ==
    /\ ValidIntent(body)
    /\ MockAnswers("route", "cloud-function-url", authorization, body,
                   create_intent(authorization, intent_ids + 1))

InitMock ==
    /\ InitServer
    /\ WIREMOCK_FUNCTION_URL = PLACEHOLDER_URL
    /\ NoPayload
    /\ NoExchange
    /\ NoAgent

NextMock ==
    \/ \E h \in Hosts, a \in AuthHeaders, b \in Bodies : PostToFunction(h, a, b)
    \/ \E a \in AuthHeaders, b \in Bodies : PostToRoute(a, b)

SpecMock == InitMock /\ [][NextMock]_vars

(* ---------------------- building a payload, alone ----------------------- *)
\* icoraintent_create_cloud_intent, lines 149-168, for the parameters in
\* request: the default delivery expectations, the arguments dict and the
\* call of the builder
BuildIntentPayload ==
    /\ payloads = <<>>
    /\ LET args == CreateIntentArguments(request) IN
       /\ payloads' = <<_build_cloud_intent_payload(args)>>
       /\ aliased' = <<SharesPropertyList(args)>>
       /\ arguments' = ArgumentsAfterBuild(args)
    /\ UNCHANGED <<request, serverVars, mockVars, agentVars>>

\* the builder called once more with the same arguments dict
BuildAgain ==
    /\ payloads # <<>>
    /\ Len(payloads) < MaxBuilds
    /\ payloads' = Append(payloads, _build_cloud_intent_payload(arguments))
    /\ aliased' = Append(aliased, SharesPropertyList(arguments))
    /\ arguments' = ArgumentsAfterBuild(arguments)
    /\ UNCHANGED <<request, serverVars, mockVars, agentVars>>

InitPayload ==
    /\ InitServer
    /\ WIREMOCK_FUNCTION_URL = PLACEHOLDER_URL
    /\ request \in Requests
    /\ arguments = PyNone
    /\ payloads = <<>>
    /\ aliased = <<>>
    /\ NoExchange
    /\ NoAgent

NextPayload == BuildIntentPayload \/ BuildAgain

SpecPayload == InitPayload /\ [][NextPayload]_vars

(* ------------------------------- claims -------------------------------- *)
\* every tool call in progress, and the one that just returned
Calls == {callers[c] : c \in Callers} \cup {last}

\* the calls that entered get_valid_token
GvtCalls == {r \in Calls : r.gvt_at # NoTime}

\* get_valid_token was entered on a manager holding a token that a response
\* with a numeric expires_in delivered
HeldFromNumeric(r) == r.gvt_held # None /\ r.gvt_held_tag = "int"

\* issueTime + e - 30s for the token held when get_valid_token was entered
HeldBoundary(r) == r.gvt_held_at + r.gvt_held_e - 30

\* C1: for a manager holding token T obtained at time t0 from a response with
\* expires_in = e, a get_valid_token call made at now < t0 + e - 30 returns T
\* and sends no token request, and a call made at or after that instant sends
\* exactly one token request.
C1_CachedUntilBoundary ==
    \A r \in GvtCalls :
        HeldFromNumeric(r) =>
            /\ r.gvt_at < HeldBoundary(r) =>
                   /\ r.gvt_out = "returned"
                   /\ r.gvt_token = r.gvt_held
                   /\ r.tokenReqs = 0
            /\ r.gvt_at >= HeldBoundary(r) => r.tokenReqs = 1

\* a call one second before the boundary was served from the cache
C1_Witness ==
    /\ HeldFromNumeric(last)
    /\ last.gvt_at = HeldBoundary(last) - 1
    /\ last.gvt_token = last.gvt_held
    /\ last.tokenReqs = 0

\* a call exactly at the boundary sent a token request
C1_WitnessAtBoundary ==
    \E c \in Callers :
        /\ HeldFromNumeric(callers[c])
        /\ callers[c].gvt_at = HeldBoundary(callers[c])
        /\ callers[c].pc = "await_token"

\* C2 as stated: every token get_valid_token returns is returned at a time
\* before the expiry stored for it, whatever expires_in the endpoint sent.
C2_NeverPastExpiry ==
    \A r \in GvtCalls : r.gvt_out = "returned" => r.gvt_ret_at < r.gvt_exp

\* the token was returned from a refresh whose response left less than the
\* safety margin
ShortLived(r) == r.tokenReqs > 0 /\ r.ans.e_tag = "int" /\ r.ans.e <= 30

\* C2 as amended: every token get_valid_token returns is returned at a time
\* before the stored expiry, except a token the same call has just obtained
\* from a response with expires_in <= 30.
C2_NeverPastExpiryUnlessShortLived ==
    \A r \in GvtCalls :
        r.gvt_out = "returned" /\ ~ShortLived(r) => r.gvt_ret_at < r.gvt_exp

\* a cached token was returned with a second to go
C2_Witness ==
    /\ last.gvt_out = "returned"
    /\ last.tokenReqs = 0
    /\ last.gvt_ret_at + 1 = last.gvt_exp

\* the token request of r was answered with a transport error, a non-2xx
\* status or a body that cannot be used
RefreshFailed(r) ==
    \/ r.ans.err # ""
    \/ r.ans.status # 0 /\ ~(r.ans.status \in 200..299)
    \/ r.ans.body \in {"not_json", "no_access_token"}
    \/ r.ans.e_tag = "str"

\* C3: when the token request is unreachable, gets a non-2xx response or a
\* malformed body, get_valid_token raises an error that carries the cause
\* and returns no token, in particular not the cached one.
C3_FailedRefreshRaises ==
    \A r \in GvtCalls :
        RefreshFailed(r) =>
            /\ r.gvt_out = "raised"
            /\ r.gvt_cause # None
            /\ r.ans.err # "" => r.gvt_cause = r.ans.err
            /\ r.gvt_token = None

\* a refresh failed with a 500 while an expired token was cached
C3_Witness ==
    /\ last.gvt_out = "raised"
    /\ last.ans.status = 500
    /\ last.gvt_held # None
    /\ managers[last.self].token = last.gvt_held

\* C4: after a successful refresh at time now with expires_in = e the stored
\* expiry is now + e - 30; without an expires_in field it is now + 3600 - 30.
C4_StoredExpiry ==
    \A r \in GvtCalls :
        r.tokenReqs > 0 /\ r.gvt_out = "returned" =>
            /\ r.ans.e_tag = "int" => r.gvt_exp = r.gvt_ret_at + r.ans.e - 30
            /\ r.ans.e_tag = "absent" => r.gvt_exp = r.gvt_ret_at + 3600 - 30
            /\ r = last => managers[r.self].token_expiry = r.gvt_exp

\* a refresh whose response had no expires_in stored now + 3570
C4_Witness ==
    /\ last.gvt_out = "returned"
    /\ last.tokenReqs = 1
    /\ last.ans.e_tag = "absent"
    /\ managers[last.self].token_expiry = now + 3570

\* the tool calls that have returned
Finished(ops) == last.op \in ops

\* C5: test-auth or create-intent called while no token manager is installed
\* gives a ToolResult with status error and the missing-configuration
\* message, raises nothing and sends no token request and no intent POST.
C5_UnconfiguredIsError ==
    Finished({"test_auth", "create_intent"}) /\ last.cfg = 0 =>
        /\ last.result.outcome = "returned"
        /\ call_mcp_tool(tools_call(last.result)).status = "error"
        /\ call_mcp_tool(tools_call(last.result)).text = "not_configured"
        /\ last.tokenReqs = 0
        /\ last.postReqs = 0

\* C6: each of the six operations returns a result, whatever the backend
\* answers and whether or not a manager is installed; none raises.
C6_AlwaysReturns ==
    Finished({"configure_auth", "test_auth", "create_intent", "check_connectivity",
              "health_check", "list_tools"}) =>
        /\ last.result.outcome = "returned"
        /\ last.result.mark \in {"ok", "warn", "err"}

\* test-auth returned an error text after the token endpoint was unreachable
C6_Witness ==
    /\ last.op = "test_auth"
    /\ last.ans.err = "ConnectError"
    /\ last.result.outcome = "returned"
    /\ last.result.mark = "err"

\* C7: create-intent reports success exactly when the intent endpoint
\* answers 201; for any other status s with body b it reports an error whose
\* message holds s and b unchanged.
C7_SuccessIff201 ==
    Finished({"create_intent"}) /\ last.reply.status # 0 =>
        /\ last.result.mark = "ok" <=> last.reply.status = 201
        /\ last.reply.status # 201 =>
               /\ last.result.mark = "err"
               /\ last.result.code = last.reply.status
               /\ last.result.body = last.reply.body

\* the admin probe was sent and failed: an error, or a status other than 200
AdminFailed(r) == r.admin.err # "" \/ (r.admin.status # 0 /\ r.admin.status # 200)

\* the health probe failed: an error, or a status other than 200
HealthFailed(r) == r.health.err # "" \/ r.health.status # 200

\* C8: with /health at 200 and a failed admin probe (a non-200 status or an
\* error) the result is the partial-success message; a hard failure is
\* reported only when /health fails; with both at 200 the number of mappings
\* is reported.
C8_AdminFailureIsPartial ==
    Finished({"check_connectivity"}) =>
        /\ last.health.status = 200 /\ AdminFailed(last) =>
               last.result.text = "admin_not_accessible" /\ last.result.mark = "warn"
        /\ last.result.mark = "err" => HealthFailed(last)
        /\ last.health.status = 200 /\ last.admin.status = 200 =>
               last.result.text = "fully_accessible" /\ last.result.count = last.admin.count

\* C9: whenever a manager is installed its token URL is base_url followed by
\* /auth/keycloak_realm/protocol/openid-connect/token.
C9_TokenUrlMatchesBaseUrl ==
    token_manager # 0 =>
        managers[token_manager].token_url =
            base_url \o "/auth/keycloak_realm/protocol/openid-connect/token"

\* configure-auth replaced the manager installed from the environment by one
\* for another URL
C9_Witness ==
    /\ WIREMOCK_FUNCTION_URL = "https://wm-a"
    /\ last.op = "configure_auth"
    /\ token_manager = 2
    /\ base_url = "https://wm-b"

\* C10: one test-auth sends at most one token request and no intent POST;
\* one create-intent sends at most one token request and at most one POST.
C10_NoRetry ==
    \A r \in Calls :
        /\ r.op = "test_auth" => r.tokenReqs <= 1 /\ r.postReqs = 0
        /\ r.op = "create_intent" => r.tokenReqs <= 1 /\ r.postReqs <= 1
        /\ r.op \notin {"test_auth", "create_intent"} =>
               r.tokenReqs = 0 /\ r.postReqs = 0

\* a create-intent whose token request and POST were both sent, the POST
\* answered 500, has returned
C10_Witness ==
    /\ last.op = "create_intent"
    /\ last.tokenReqs = 1
    /\ last.postReqs = 1
    /\ last.reply.status = 500

\* a test-auth gave up after one failed token request
C10_WitnessFailedRefresh ==
    /\ last.op = "test_auth"
    /\ last.tokenReqs = 1
    /\ last.gvt_out = "raised"

(* -------------------------- claims: payload ---------------------------- *)
\* the payloads built so far
Built == DOMAIN payloads

\* "key in p" for a dict p
HasKey(p, key) == key \in DOMAIN p

\* C11: calling the payload builder twice with the same request yields
\* identical payloads: the second call returns what the first call returned.
C11_SameRequestSamePayload ==
    \A i, j \in Built : payloads[i] = payloads[j]

\* C12: for a request with no deliveryExpectations the payload create-intent
\* sends has deliveryExpectations equal to exactly the one entry
\* {target: "_:service", params: {targetDescription: "cat:EventWirelessAccess"}},
\* and a supplied non-empty sequence is sent unchanged and in order.
C12_DefaultDelivery ==
    payloads # <<>> =>
        LET sent == payloads[1]["deliveryExpectations"] IN
        /\ ~Truthy(request.deliveryExpectations) =>
               sent = <<[target |-> "_:service",
                         params |-> [targetDescription |-> "cat:EventWirelessAccess"]]>>
        /\ Truthy(request.deliveryExpectations) =>
               sent = request.deliveryExpectations.value

\* a payload was built for a request that gave no deliveryExpectations
C12_Witness ==
    /\ payloads # <<>>
    /\ request.deliveryExpectations = PyNone
    /\ Len(payloads[1]["deliveryExpectations"]) = 1

\* a payload was built for a request that gave two deliveryExpectations
C12_WitnessSupplied ==
    /\ payloads # <<>>
    /\ request.deliveryExpectations = Given(<<WirelessAccess, Coverage>>)
    /\ payloads[1]["deliveryExpectations"] = <<WirelessAccess, Coverage>>

\* C13: for every request with a non-empty serviceArea and no prior
\* propertyExpectations, whatever its intentType, the built payload has
\* propertyExpectations equal to exactly one entry {target: "_:service",
\* params: {"elb:areaOfService": P}}, P listing in input order one
\* {geo:longitude, geo:latitude} pair per input point with the input's values.
C13_ServiceAreaFolded ==
    (/\ payloads # <<>>
     /\ Truthy(request.serviceArea)
     /\ ~Truthy(request.propertyExpectations)) =>
        LET area == request.serviceArea.value
            P == [i \in DOMAIN area |->
                    ("geo:longitude" :> area[i].longitude)
                    @@ ("geo:latitude" :> area[i].latitude)]
        IN /\ HasKey(payloads[1], "propertyExpectations")
           /\ payloads[1]["propertyExpectations"] =
                  <<[target |-> "_:service", params |-> ("elb:areaOfService" :> P)]>>

\* C14: the built payload contains an expression field if and only if
\* intentType equals "EventLiveBroadcast"; for VideoConference, DataTransfer
\* and an absent type no expression field is present.
C14_ExpressionIffBroadcast ==
    \A i \in Built :
        HasKey(payloads[i], "expression") <=> request.intentType = "EventLiveBroadcast"

\* a payload without expression was built for a VideoConference request
C14_Witness ==
    /\ payloads # <<>>
    /\ request.intentType = "VideoConference"
    /\ ~HasKey(payloads[1], "expression")

\* a payload with expression was built for an EventLiveBroadcast request
C14_WitnessBroadcast ==
    /\ payloads # <<>>
    /\ request.intentType = "EventLiveBroadcast"
    /\ HasKey(payloads[1], "expression")

\* C15: when intentType is "EventLiveBroadcast", the expression field consists
\* of an "@context" block with exactly the four prefixes icm, cat, idan, geo
\* and an "idan:EventLiveBroadcast" node whose "@type" is icm:Intent, with a
\* fixed intentOwner and an empty hasExpectation sequence.
C15_ExpressionShape ==
    \A i \in Built :
        request.intentType = "EventLiveBroadcast" =>
            /\ HasKey(payloads[i], "expression")
            /\ LET expression == payloads[i]["expression"] IN
               /\ DOMAIN expression = {"@context", "idan:EventLiveBroadcast"}
               /\ DOMAIN expression["@context"] = {"icm", "cat", "idan", "geo"}
               /\ LET node == expression["idan:EventLiveBroadcast"] IN
                  /\ node["@type"] = "icm:Intent"
                  /\ node["icm:intentOwner"] = "idan:ABCEvents"
                  /\ node["icm:hasExpectation"] = <<>>

\* C16 as stated: the built payload always has the top-level keys name,
\* description, type = "Intent" and deliveryExpectations; validFor and
\* propertyExpectations appear with the caller's value unmodified when the
\* request has them, and the key is absent when the request does not have
\* them and no service area is folded in.
C16_CopiedWhenPresent ==
    payloads # <<>> =>
        LET p == payloads[1] IN
        /\ {"name", "description", "type", "deliveryExpectations"} \subseteq DOMAIN p
        /\ p["type"] = "Intent"
        /\ request.validFor.given =>
               HasKey(p, "validFor") /\ p["validFor"] = request.validFor.value
        /\ request.propertyExpectations.given =>
               /\ HasKey(p, "propertyExpectations")
               /\ p["propertyExpectations"] = request.propertyExpectations.value
        /\ ~request.validFor.given => ~HasKey(p, "validFor")
        /\ ~request.propertyExpectations.given /\ ~FoldsServiceArea(request) =>
               ~HasKey(p, "propertyExpectations")

\* C16: the built payload always has the top-level keys name, description,
\* type = "Intent" and deliveryExpectations, with the request's name and
\* description; a non-empty validFor appears with the caller's value
\* unmodified; a non-empty propertyExpectations appears with the caller's
\* value unmodified unless a service area is folded in, and then with the
\* caller's entries followed by one more entry; the validFor key is absent
\* when the request has no validFor or an empty one, and the
\* propertyExpectations key is absent when the request has none or an empty
\* one and no service area is folded in.
C16_CopiedWhenNonEmpty ==
    payloads # <<>> =>
        LET p == payloads[1]
            own == request.propertyExpectations.value
        IN
        /\ {"name", "description", "type", "deliveryExpectations"} \subseteq DOMAIN p
        /\ p["type"] = "Intent"
        /\ p["name"] = request.name
        /\ p["description"] = request.description
        /\ Truthy(request.validFor) =>
               HasKey(p, "validFor") /\ p["validFor"] = request.validFor.value
        /\ ~Truthy(request.validFor) => ~HasKey(p, "validFor")
        /\ Truthy(request.propertyExpectations) =>
               /\ HasKey(p, "propertyExpectations")
               /\ ~FoldsServiceArea(request) => p["propertyExpectations"] = own
               /\ FoldsServiceArea(request) =>
                      /\ Len(p["propertyExpectations"]) = Len(own) + 1
                      /\ SubSeq(p["propertyExpectations"], 1, Len(own)) = own
        /\ ~Truthy(request.propertyExpectations) /\ ~FoldsServiceArea(request) =>
               ~HasKey(p, "propertyExpectations")

\* a payload carrying the caller's validFor and two propertyExpectations was
\* built for a request without service area
C16_Witness ==
    /\ payloads # <<>>
    /\ Truthy(request.validFor)
    /\ request.propertyExpectations = Given(<<Latency, Bandwidth>>)
    /\ ~Truthy(request.serviceArea)
    /\ payloads[1]["propertyExpectations"] = <<Latency, Bandwidth>>
    /\ payloads[1]["validFor"] = request.validFor.value

\* a payload without validFor and propertyExpectations keys was built for a
\* request that gave an empty value for both
C16_WitnessEmpty ==
    /\ payloads # <<>>
    /\ request.validFor = Given(<<>>)
    /\ request.propertyExpectations = Given(<<>>)
    /\ DOMAIN payloads[1] \subseteq
           {"name", "description", "type", "deliveryExpectations", "expression"}

(* ----------------------- claims: dispatch, state ------------------------ *)
\* the names in a list of tools
NamesOf(list) == {list[i] : i \in DOMAIN list}

\* C17: tools/call accepts exactly the six names that tools/list and
\* list-tools enumerate; a call with any other name answers the Tool-not-found
\* error (-32601), invokes no operation and leaves the token manager and the
\* base URL unchanged.
C17_SixNames ==
    [][/\ Cardinality(NamesOf(TOOLS_LIST)) = 6
       /\ NamesOf(LISTED_TOOLS) = NamesOf(TOOLS_LIST)
       /\ \A tool_name \in ToolNames :
              Dispatch(tool_name) # "tool_not_found" <=> tool_name \in NamesOf(TOOLS_LIST)
       /\ last'.op = "tool_not_found" =>
              /\ last'.result.outcome = "rpc_error"
              /\ last'.result.code = -32601
              /\ last'.result.body \notin NamesOf(TOOLS_LIST)
              /\ last'.tokenReqs = 0 /\ last'.postReqs = 0
              /\ issued' = issued
              /\ callers' = callers
              /\ token_manager' = token_manager
              /\ managers' = managers
              /\ base_url' = base_url]_vars

\* a call with an unknown name was answered while a manager was installed
C17_Witness ==
    /\ last.op = "tool_not_found"
    /\ last.result.body = "icoraintent_delete_cloud_intent"
    /\ token_manager # 0

\* C18: once a token manager has been installed, by start-up
\* auto-configuration or by configure-auth, no operation and no failure brings
\* the system back to Unconfigured, and test-auth and create-intent never
\* again answer that authentication is not configured.
C18_StaysConfigured ==
    [][token_manager # 0 =>
          /\ token_manager' # 0
          /\ token_manager' \in DOMAIN managers'
          /\ managers'[token_manager'] # Freed
          /\ last'.result.text # "not_configured"]_vars

\* create-intent returned after a failed refresh and the manager is still
\* installed
C18_Witness ==
    /\ last.op = "create_intent"
    /\ last.cfg # 0
    /\ last.gvt_out = "raised"
    /\ last.result.text # "not_configured"
    /\ token_manager # 0

(* ------------------------- claims: mock backend ------------------------- *)
\* C19: the mock intent endpoint answers a POST /intent/ whose Authorization
\* header is missing or does not start with "Bearer " with HTTP 401 and error
\* "unauthorized", whatever the request body, and generates no intent id;
\* with a bearer header and a valid body it answers 201 with a Location
\* header that ends in the same generated id as the response body's id.
C19_BearerRequired ==
    exchange.given =>
        LET x == exchange.value IN
        /\ Unauthorized(x.authorization) =>
               /\ x.reply.status = 401
               /\ x.reply.error = "unauthorized"
               /\ intent_ids = x.ids_before
        /\ ~Unauthorized(x.authorization) /\ ValidIntent(x.body) =>
               /\ x.reply.status = 201
               /\ x.reply.id # 0
               /\ x.reply.location.id = x.reply.id
               /\ intent_ids = x.ids_before + 1

\* C19 for bodies that are UTF-8 text
C19_BearerRequiredForText ==
    exchange.given /\ Decodes(exchange.value.body) => C19_BearerRequired

\* a request without Authorization header and with a valid body got 401
C19_WitnessUnauthorized ==
    /\ exchange.given
    /\ exchange.value.authorization = PyNone
    /\ exchange.value.body = "json_intent"
    /\ exchange.value.reply.status = 401

(* ------------------------- claims: concurrency -------------------------- *)
\* the tokens the token endpoint has issued so far
IssuedTokens == {TokenNames[k] : k \in 1..issued}

\* C20: refresh is not single-flight: of two callers that enter
\* get_valid_token while the token is absent or expired each may send its own
\* token request, at most one per caller, and every caller whose request
\* succeeds returns a non-empty token issued by one of those requests.
C20_NotSingleFlight ==
    \A r \in GvtCalls :
        /\ r.tokenReqs <= 1
        /\ r.gvt_req /\ r.ans # NoAnswer /\ RefreshError(r.ans) = "" =>
               /\ r.gvt_out = "returned"
               /\ r.gvt_token # None
               /\ r.gvt_token \in IssuedTokens

\* two callers entered get_valid_token at the same time on a manager without
\* token, each sent a token request, and the first answer has been returned
\* while the other request is still in flight
C20_Witness ==
    /\ last.gvt_req
    /\ last.gvt_out = "returned"
    /\ last.gvt_held = None
    /\ \E c \in Callers :
           /\ callers[c].pc = "await_token"
           /\ callers[c].self = last.self
           /\ callers[c].gvt_at = last.gvt_at
           /\ callers[c].req_no # last.req_no

\* two callers found the token expired and each sent a token request
C20_WitnessExpired ==
    \A c \in Callers :
        /\ callers[c].pc = "await_token"
        /\ callers[c].gvt_held # None
        /\ callers[c].self = token_manager

(* ---------------------- claims: payload, continued ---------------------- *)
\* C23: when the request has a non-empty serviceArea and an existing
\* propertyExpectations sequence of n entries, the payload's
\* propertyExpectations has exactly n + 1 entries: the n original entries
\* unchanged and in their original order, followed by one additional entry
\* targeting "_:service" with key "elb:areaOfService".
C23_OneEntryAppended ==
    (/\ payloads # <<>>
     /\ Truthy(request.serviceArea)
     /\ request.propertyExpectations.given) =>
        LET own == request.propertyExpectations.value
            n == Len(own)
        IN /\ HasKey(payloads[1], "propertyExpectations")
           /\ LET sent == payloads[1]["propertyExpectations"] IN
              /\ Len(sent) = n + 1
              /\ SubSeq(sent, 1, n) = own
              /\ sent[n + 1]["target"] = "_:service"
              /\ DOMAIN sent[n + 1]["params"] = {"elb:areaOfService"}

\* C24: the payload builder has no side effects on its input: after a call
\* every field of the caller's intent request, in particular its
\* propertyExpectations and deliveryExpectations sequences, has the same
\* content and length as before the call.
C24_InputUntouched ==
    payloads # <<>> => arguments = CreateIntentArguments(request)

(* ----------------------- claims: refresh and state ---------------------- *)
\* C25: a failed refresh leaves the manager's state unchanged: whenever
\* _refresh_access_token raises (transport error, non-2xx status, body
\* without access_token, or body with access_token but an unusable
\* expires_in), the stored token and the stored expiry are both exactly what
\* they were before the call.
C25_FailedRefreshKeepsState ==
    [][\A c \in Callers :
          (/\ callers[c].pc = "await_token"
           /\ callers'[c].pc # "await_token"
           /\ last'.gvt_out = "raised") =>
              LET i == callers[c].self IN
              /\ managers'[i].token = managers[i].token
              /\ managers'[i].token_expiry = managers[i].token_expiry]_vars

\* C26: in every reachable state of a manager, under any interleaving of
\* concurrent refreshes, the stored token and the stored expiry come from the
\* same token response: either both are unset, or the expiry is the one
\* computed from the response that delivered the stored token.
C26_TokenAndExpiryTogether ==
    \A i \in DOMAIN managers :
        LET m == managers[i] IN
        \/ m.token = None /\ m.token_expiry = NoTime
        \/ /\ m.token # None
           /\ m.tok_tag \in {"int", "absent"}
           /\ m.token_expiry = ExpiryOf(m.tok_at, m.tok_tag, m.tok_e)

(* ------------------- claims: configuration and ordering ----------------- *)
\* a token-using tool call that found a configuration
TokenCalls ==
    {r \in Calls : r.op \in {"test_auth", "create_intent"} /\ r.cfg # 0}

\* C21: configure-auth always installs a fresh manager: after it the
\* installed manager holds no token and no expiry and points at the token URL
\* of the newly configured base URL; a test-auth or create-intent that finds
\* the installed manager fresh therefore issues a token request to that token
\* URL, and the token it returns or sends as bearer is the one this request
\* was answered with, never one obtained earlier.
C21_ConfigureInstallsFresh ==
    /\ last.op = "configure_auth" =>
          /\ token_manager # 0
          /\ base_url = last.result.url
          /\ managers[token_manager].token = None
          /\ managers[token_manager].token_expiry = NoTime
          /\ managers[token_manager].token_url = TokenUrl(base_url)
    /\ \A r \in TokenCalls :
          r.gvt_held_at = NoTime =>
             /\ r.gvt_held = None
             /\ r.gvt_req
             /\ r.tokenReqs = 1
             /\ r.req_url = TokenUrl(base_url)
             /\ r.gvt_out = "returned" => r.gvt_token = TokenNames[r.req_no]
             /\ r.postReqs > 0 => r.post_bearer = TokenNames[r.req_no]

\* a create-intent on a manager installed by configure-auth over the one from
\* the environment, after an earlier token request, sent its own token
C21_Witness ==
    /\ last.op = "create_intent"
    /\ last.cfg = 2
    /\ WIREMOCK_FUNCTION_URL # ""
    /\ base_url # WIREMOCK_FUNCTION_URL
    /\ last.gvt_held_at = NoTime
    /\ last.req_no = 2
    /\ last.post_bearer = TokenNames[2]
    /\ last.result.text = "intent_created"

\* C22: within one create-intent the steps are ordered: configuration check,
\* token acquisition, payload construction, POST to {baseUrl}/intent/ with
\* the acquired token as bearer; if the configuration check or the token
\* acquisition fails, no POST is issued.
C22_OrderedSteps ==
    \A r \in Calls :
        r.op = "create_intent" =>
            /\ r.trace \in {<<"check">>, <<"check", "token">>,
                            <<"check", "token", "payload", "post">>}
            /\ r.postReqs = (IF Len(r.trace) = 4 THEN 1 ELSE 0)
            /\ r.postReqs > 0 =>
                  /\ r.cfg # 0
                  /\ r.gvt_out = "returned"
                  /\ r.post_bearer = r.gvt_token
                  /\ r.post_url = base_url \o INTENT_PATH
            /\ (r.cfg = 0 \/ r.gvt_out = "raised") =>
                  /\ r.postReqs = 0
                  /\ r.pc = "idle"
                  /\ r.result.mark = "err"

\* a create-intent whose token acquisition failed has returned without a POST
C22_Witness ==
    /\ last.op = "create_intent"
    /\ last.gvt_out = "raised"
    /\ last.trace = <<"check", "token">>
    /\ last.result.text = "intent_error"

(* ------------------- reconfiguration during a tool call ----------------- *)
\* Two tool calls in progress at a time, one of which may be configure-auth:
\* it runs while the other is suspended on its token request or on its POST.
NextReconfigure ==
    \/ \E c \in Callers, u \in Urls : icoraintent_configure_cloud_auth(c, u)
    \/ \E c \in Callers : icoraintent_test_cloud_auth(c)
    \/ \E c \in Callers : icoraintent_create_cloud_intent(c)
    \/ \E c \in Callers, a \in ConcurrentTokenAnswers : TokenResponse(c, a)
    \/ \E c \in Callers, a \in ConcurrentIntentAnswers : IntentResponse(c, a)

SpecReconfigure == Init /\ [][NextReconfigure]_vars

\* C27: a create-intent never mixes configurations: the bearer token it sends
\* was issued by the token URL derived from the same base URL it POSTs to,
\* also when a configure-auth with another wiremockUrl ran while the
\* create-intent was suspended on its token request.
C27_OneConfiguration ==
    \A r \in Calls :
        (r.op = "create_intent" /\ r.postReqs > 0) =>
            \E u \in Urls \cup {WIREMOCK_FUNCTION_URL} :
                /\ r.post_url = u \o INTENT_PATH
                /\ r.gvt_url = TokenUrl(u)

(* ------------------ the MCP server against the mock backend ------------- *)
\* 'grant_type': 'password', the form field _refresh_access_token sends
GRANT_TYPE == "password"

\* generate_oauth_response: a fresh access_token with expires_in = 3600
generate_oauth_response == Answer("", 200, "token", "int", 3600)

\* the mock's token endpoint: only the password grant is served
wiremock_token(grant_type) ==
    IF grant_type # "password" THEN Answer("", 400, "no_access_token", "none", 0)
    ELSE generate_oauth_response

\* the entries of a list are objects with the required keys
EachHas(list, keys) == \A i \in DOMAIN list : keys \subseteq DOMAIN list[i]

\* IntentRequest with undeclared fields rejected
IntentRequestForbidsExtra(json_data) ==
    DOMAIN json_data \subseteq
        {"name", "description", "type", "deliveryExpectations", "validFor",
         "propertyExpectations", "serviceArea"}

\* IntentRequest(**json_data): the required fields are there and the nested
\* models have theirs; fields the model does not declare are ignored
IntentRequest(json_data) ==
    /\ {"name", "description", "deliveryExpectations"} \subseteq DOMAIN json_data
    /\ EachHas(json_data["deliveryExpectations"], {"target", "params"})
    /\ HasKey(json_data, "validFor") =>
          {"startDateTime", "endDateTime"} \subseteq DOMAIN json_data["validFor"]
    /\ HasKey(json_data, "propertyExpectations") =>
          EachHas(json_data["propertyExpectations"], {"target", "params"})
    /\ HasKey(json_data, "serviceArea") =>
          EachHas(json_data["serviceArea"], {"longitude", "latitude"})

\* icoraintent_wiremock_function for POST /intent/ with a JSON object as body
wiremock_intent_json(host, authorization, json_data, n) ==
    IF Unauthorized(authorization) THEN Reply(401, "unauthorized", 0, "", 0)
    ELSE IF IntentRequest(json_data)
    THEN Reply(HTTP_CREATED, "", IntentId(n), "https://" \o host \o "/intent/",
               IntentId(n))
    ELSE Reply(400, "validation_error", 0, "", 0)

\* the response of the mock as the httpx client of the MCP server receives
\* it: every answer of the function is a JSON object
AsIntentAnswer(reply) ==
    IntentAnswer("", reply.status, TRUE,
                 IF reply.status = HTTP_CREATED THEN "{id}"
                 ELSE "{" \o reply.error \o "}")

\* the token request caller c is suspended on reaches the mock
MockServesToken(c) ==
    /\ callers[c].pc = "await_token"
    /\ TokenResponse(c, wiremock_token(GRANT_TYPE))

\* the POST caller c is suspended on reaches the mock: json=intent_payload,
\* 'Authorization': f'Bearer {token}'
MockServesIntent(c) ==
    /\ callers[c].pc = "await_post"
    /\ intent_ids < MaxIntents
    /\ LET cr == callers[c]
           host == CHOOSE h \in Hosts : "https://" \o h \o INTENT_PATH = cr.post_url
           authorization == Given(<<"Bearer ", cr.post_bearer>>)
           intent_payload == _build_cloud_intent_payload(CreateIntentArguments(request))
           reply == wiremock_intent_json(host, authorization, intent_payload,
                                         intent_ids + 1)
           a == AsIntentAnswer(reply)
       IN /\ exchange' = Given([entry |-> "function", host |-> host,
                                authorization |-> authorization,
                                body |-> intent_payload, reply |-> reply,
                                ids_before |-> intent_ids])
          /\ intent_ids' = IF reply.id # 0 THEN intent_ids + 1 ELSE intent_ids
          /\ Step(c, IntentOutcome([cr EXCEPT !.reply = a], a))
    /\ UNCHANGED <<WIREMOCK_FUNCTION_URL, token_manager, base_url, managers, now,
                   ticks, issued>>
    /\ UNCHANGED <<payloadVars, agentVars>>

\* an unconfigured server, one caller and the mock; request: the parameters
\* the create-intent calls are given
NextEndToEnd ==
    \/ \E c \in Sequential, h \in Hosts :
          icoraintent_configure_cloud_auth(c, "https://" \o h)
    \/ \E c \in Sequential : icoraintent_create_cloud_intent(c)
    \/ \E c \in Sequential : MockServesToken(c)
    \/ \E c \in Sequential : MockServesIntent(c)

SpecEndToEnd == InitPayload /\ [][NextEndToEnd]_vars

\* C28: end to end against the mock backend, configure-auth followed by
\* create-intent with any optional fields always ends in success: the token
\* of the mock's token endpoint passes the bearer check of its intent
\* endpoint, and the payload the builder produced is accepted by the mock's
\* IntentRequest validation, which answers 201.
C28_EndToEndSuccess ==
    /\ \A r \in Calls :
          (r.op = "create_intent" /\ r.cfg # 0) =>
              /\ r.gvt_out \in {"none", "returned"}
              /\ r.pc = "idle" =>
                    /\ r.result.text = "intent_created"
                    /\ r.reply.status = HTTP_CREATED
                    /\ exchange.given
                    /\ exchange.value.reply.status = HTTP_CREATED
                    /\ exchange.value.authorization.value[2] = r.gvt_token
    /\ exchange.given => exchange.value.reply.status = HTTP_CREATED

\* a broadcast intent with every optional field given was created
C28_Witness ==
    /\ last.op = "create_intent"
    /\ last.result.text = "intent_created"
    /\ request.intentType = "EventLiveBroadcast"
    /\ Truthy(request.deliveryExpectations)
    /\ Truthy(request.serviceArea)
    /\ Truthy(request.validFor)
    /\ Truthy(request.propertyExpectations)
    /\ HasKey(exchange.value.body, "expression")

(* ------------------ the A2A executor: one run of execute ---------------- *)
\* What the run did to the task, in order: "submit", "start_work", "working"
\* (update_status(TaskState.working)), "artifact", "completed" and "failed".
\* The calls of the TaskUpdater are taken to succeed.
Updated(t, calls) == [t EXCEPT !.updates = @ \o calls]

\* the texts of event.content.parts of a final response; "": a part without text
FinalParts == {<<"done">>, <<"">>, <<"part one", "">>, <<>>}

\* the events runner.run_async yields: partial ones, final responses with
\* content, and a final response whose content is None
AgentEvents ==
    {[final |-> FALSE, content |-> TRUE, parts |-> <<"thinking">>],
     [final |-> TRUE, content |-> FALSE, parts |-> <<>>]}
    \cup {[final |-> TRUE, content |-> TRUE, parts |-> ps] : ps \in FinalParts}

\* [TextPart(text=part.text) for part in parts if part.text]
TextParts(parts) == SelectSeq(parts, LAMBDA text : text # "")

\* OnFinalResponse without the break: the loop goes on after complete()
OnFinalResponseNoBreak(t, parts) ==
    [Updated(t, <<"artifact", "completed">>) EXCEPT
        !.seen_final = TRUE, !.artifact = TextParts(parts)]

\* lines 325-335: add_artifact, complete, break
OnFinalResponse(t, parts) ==
    [Updated(t, <<"artifact", "completed">>) EXCEPT
        !.seen_final = TRUE, !.artifact = TextParts(parts), !.pc = "done"]

\* lines 349-354: the except clause reports the failure
OnException(t) == [Updated(t, <<"failed">>) EXCEPT !.raised = TRUE, !.pc = "done"]

\* execute up to the event loop (lines 296-318): submit for a new task,
\* start_work, then the session is found or created
execute(current_task, found) ==
    /\ task.pc = "none"
    /\ task' = [Updated(task, (IF current_task THEN <<>> ELSE <<"submit">>)
                              \o <<"start_work">>) EXCEPT
                   !.pc = "loop", !.current_task = current_task,
                   !.session = IF found THEN "found" ELSE "created"]
    /\ UNCHANGED <<serverVars, payloadVars, mockVars, workflow>>

\* the session service raises (lines 309-317 are outside the try block): the
\* exception leaves execute before the event loop
SessionRaises(current_task) ==
    /\ task.pc = "none"
    /\ task' = [Updated(task, (IF current_task THEN <<>> ELSE <<"submit">>)
                              \o <<"start_work">>) EXCEPT
                   !.pc = "escaped", !.current_task = current_task,
                   !.raised = TRUE]
    /\ UNCHANGED <<serverVars, payloadVars, mockVars, workflow>>

\* one iteration of the loop (lines 320-340) on event e
OnEvent(e) ==
    /\ task.pc = "loop"
    /\ ~e.final => task.events < MaxEvents
    /\ task' = IF ~e.final
               THEN [Updated(task, <<"working">>) EXCEPT !.events = @ + 1]
               ELSE IF ~e.content  \* event.content.parts on None
                    THEN OnException([task EXCEPT !.seen_final = TRUE])
                    ELSE OnFinalResponse(task, e.parts)
    /\ UNCHANGED <<serverVars, payloadVars, mockVars, workflow>>

\* the stream ends without a final response: the else clause of the loop
\* (lines 341-346)
StreamEnds ==
    /\ task.pc = "loop"
    /\ task' = [Updated(task, <<"failed">>) EXCEPT !.pc = "done"]
    /\ UNCHANGED <<serverVars, payloadVars, mockVars, workflow>>

\* runner.run_async raises between two events
RunnerRaises ==
    /\ task.pc = "loop"
    /\ task' = OnException(task)
    /\ UNCHANGED <<serverVars, payloadVars, mockVars, workflow>>

NextExecutor ==
    \/ \E current_task \in BOOLEAN, found \in BOOLEAN : execute(current_task, found)
    \/ \E current_task \in BOOLEAN : SessionRaises(current_task)
    \/ \E e \in AgentEvents : OnEvent(e)
    \/ StreamEnds
    \/ RunnerRaises

SpecExecutor == Init /\ [][NextExecutor]_vars

TerminalUpdates == {"completed", "failed"}

\* C29: every run of execute that reaches the event loop ends with exactly
\* one terminal task update, which is its last update: completed, right after
\* the result artifact, if a final response was seen and handled; failed if
\* the stream ended without a final response or an exception was raised.
\* start_work precedes every working update, and while the loop runs no
\* terminal update has been made.
C29_OneTerminalUpdate ==
    LET u == task.updates
        n == Len(u)
    IN /\ task.pc = "done" =>
            /\ Cardinality({i \in 1..n : u[i] \in TerminalUpdates}) = 1
            /\ u[n] \in TerminalUpdates
            /\ u[n] = "completed" <=> (task.seen_final /\ ~task.raised)
            /\ u[n] = "completed" => u[n - 1] = "artifact"
            /\ u[n] = "failed" => \A i \in 1..n : u[i] # "artifact"
       /\ task.pc = "loop" => \A i \in 1..n : u[i] \notin TerminalUpdates
       /\ \A i \in 1..n :
             u[i] = "working" => \E j \in 1..(i - 1) : u[j] = "start_work"

\* a run with a new task and two working updates completed with its artifact
C29_Witness ==
    /\ task.pc = "done"
    /\ task.updates = <<"submit", "start_work", "working", "working", "artifact",
                        "completed">>
    /\ task.artifact = <<"part one">>

(* ---------------- the A2A agent: one run of test_mcp_workflow ----------- *)
\* The agent is the one caller of the MCP server: each step of the workflow
\* sends a request and blocks until the server has answered it.
Agent == "c1"

\* what GET {MCP_FUNCTION_URL}/health can yield: a status, or 0 for an
\* exception of requests.get
HealthStatuses == {0, HTTP_OK, 503}

\* check_mcp_status, lines 85-106
check_mcp_status(http) ==
    IF http = 0 THEN "error" ELSE IF http = HTTP_OK THEN "success" ELSE "warning"

\* call_mcp_tool when requests.post raises (lines 64-68)
McpCallFailed == [status |-> "error", text |-> "Error calling MCP function", mark |-> "none"]

\* create_network_intent, lines 135-164: success exactly when call_mcp_tool
\* reported success
create_network_intent(result) ==
    IF result.status = "success" THEN "success" ELSE "error"

WORKFLOW_STEPS == <<"status_check", "auth_config", "intent_creation">>

\* the workflow goes on to its next step
Invoke(w, step) == [w EXCEPT !.pc = step, !.invoked = Append(@, step)]

\* return of the error dict naming the step
StepFailed(w, step) ==
    [w EXCEPT !.pc = "done", !.status = "error", !.step_failed = step]

\* lines 181-182: step 1 is started
test_mcp_workflow ==
    /\ workflow.pc = "idle"
    /\ workflow' = Invoke(workflow, "status_check")
    /\ UNCHANGED <<serverVars, payloadVars, mockVars, task>>

\* lines 182-194: the health probe is answered
HealthAnswered(http) ==
    /\ workflow.pc = "status_check"
    /\ workflow' = IF check_mcp_status(http) # "success"
                   THEN StepFailed([workflow EXCEPT !.health = http], "status_check")
                   ELSE Invoke([workflow EXCEPT !.health = http], "auth_config")
    /\ UNCHANGED <<serverVars, payloadVars, mockVars, task>>

\* the request of the step the workflow waits in does not reach the server
McpUnreachable ==
    /\ workflow.pc \in {"auth_config", "intent_creation"}
    /\ callers[Agent].pc = "idle"
    /\ last.op # (IF workflow.pc = "auth_config" THEN "configure_auth"
                  ELSE "create_intent")
    /\ workflow' =
          IF workflow.pc = "auth_config"
          THEN IF McpCallFailed.status # "success"
               THEN StepFailed(workflow, "auth_config")
               ELSE Invoke(workflow, "intent_creation")
          ELSE IF create_network_intent(McpCallFailed) # "success"
               THEN StepFailed(workflow, "intent_creation")
               ELSE [workflow EXCEPT !.pc = "done", !.status = "success",
                                     !.steps_completed = WORKFLOW_STEPS]
    /\ UNCHANGED <<serverVars, payloadVars, mockVars, task>>

\* configure_mcp_auth (lines 166-175): the server runs configure-auth
McpConfigures(wiremockUrl) ==
    /\ workflow.pc = "auth_config"
    /\ last.op # "configure_auth"
    /\ icoraintent_configure_cloud_auth(Agent, wiremockUrl)

\* lines 194-203: the answer to configure_mcp_auth
AuthAnswered ==
    /\ workflow.pc = "auth_config"
    /\ last.op = "configure_auth"
    /\ workflow' = IF call_mcp_tool(tools_call(last.result)).status # "success"
                   THEN StepFailed(workflow, "auth_config")
                   ELSE Invoke(workflow, "intent_creation")
    /\ UNCHANGED <<serverVars, payloadVars, mockVars, task>>

\* create_network_intent (lines 135-136): the server starts create-intent
McpCreatesIntent ==
    /\ workflow.pc = "intent_creation"
    /\ last.op # "create_intent"
    /\ icoraintent_create_cloud_intent(Agent)

\* the token endpoint and the intent endpoint answer the server
McpTokenResponse(a) ==
    /\ workflow.pc = "intent_creation"
    /\ TokenResponse(Agent, a)

McpIntentResponse(a) ==
    /\ workflow.pc = "intent_creation"
    /\ IntentResponse(Agent, a)

\* lines 205-224: the answer to create_network_intent
IntentAnswered ==
    /\ workflow.pc = "intent_creation"
    /\ last.op = "create_intent"
    /\ workflow' =
          IF create_network_intent(call_mcp_tool(tools_call(last.result))) = "success"
          THEN [workflow EXCEPT !.pc = "done", !.status = "success",
                                !.steps_completed = WORKFLOW_STEPS]
          ELSE StepFailed(workflow, "intent_creation")
    /\ UNCHANGED <<serverVars, payloadVars, mockVars, task>>

NextWorkflow ==
    \/ test_mcp_workflow
    \/ \E http \in HealthStatuses : HealthAnswered(http)
    \/ McpUnreachable
    \/ \E u \in Urls : McpConfigures(u)
    \/ AuthAnswered
    \/ McpCreatesIntent
    \/ \E a \in TokenAnswers : McpTokenResponse(a)
    \/ \E a \in IntentAnswers : McpIntentResponse(a)
    \/ IntentAnswered

SpecWorkflow == Init /\ [][NextWorkflow]_vars

\* C30: test_mcp_workflow runs status_check, auth_config and
\* intent_creation in this order and stops at the first step that did not
\* succeed, naming it in step_failed without invoking a later step; it
\* reports overall success only if all three operations actually succeeded:
\* the MCP server healthy, authentication configured, and the intent created
\* by the backend.
C30_WorkflowSuccessIsReal ==
    LET n == Len(workflow.invoked) IN
    /\ n <= 3
    /\ workflow.invoked = SubSeq(WORKFLOW_STEPS, 1, n)
    /\ workflow.status = "error" =>
          /\ workflow.step_failed = workflow.invoked[n]
          /\ workflow.steps_completed = <<>>
    /\ workflow.status = "success" =>
          /\ n = 3
          /\ workflow.health = HTTP_OK
          /\ token_manager # 0
          /\ last.op = "create_intent"
          /\ last.reply.status = HTTP_CREATED
          /\ last.result.text = "intent_created"

====
